---- MODULE Spec2Model ----
(***************************************************************************)
(* Model of src/src/main.rs: one process run of the transfer utility.      *)
(* main builds a SolanaTransactionManager, decodes the sender key, reads   *)
(* the balance, calls send_transaction and matches on its result.  The     *)
(* RPC node (RpcClient) is the environment: every call to it returns a     *)
(* nondeterministically chosen reply.                                      *)
(*                                                                         *)
(* u64 is scaled to U64Bits bits: all u64 values live in 0..Modulus-1 and  *)
(* `+` on u64 either panics (overflow checks on, the debug profile) or     *)
(* wraps modulo Modulus (overflow checks off, the release profile).        *)
(***************************************************************************)
EXTENDS Integers, Sequences, FiniteSets

VARIABLES
    pc,               \* position of the single thread of control
    config,           \* Settings read from config/config.toml
    overflow_checks,  \* build profile: TRUE = `+` panics on overflow
    calls,            \* RPC calls issued so far, in order, with their replies
    current_balance,  \* send_transaction: let current_balance (line 84)
    balance,          \* check_sufficient_balance: let balance (line 74)
    sufficient,       \* value returned by check_sufficient_balance
    checked,          \* check_sufficient_balance has returned Ok(_)
    instruction,      \* system_instruction::transfer(...) (line 99)
    recent_blockhash, \* let recent_blockhash (line 105)
    transaction,      \* let mut transaction (lines 108-109)
    signature,        \* let signature (line 111)
    new_balance,      \* let new_balance (line 127)
    result,           \* value returned by send_transaction
    out,              \* lines written by println!/info!/error!/main's Err
    panicked,         \* the thread panicked (arithmetic overflow)
    exitCode          \* process exit status, -1 while running

vars == <<pc, config, overflow_checks, calls, current_balance, balance,
          sufficient, checked, instruction, recent_blockhash, transaction,
          signature, new_balance, result, out, panicked, exitCode>>

----------------------------------------------------------------------------
(* Bounds *)

U64Bits == 2        \* width of the scaled u64
MaxBlockhash == 2   \* blockhashes the node can return: 1..MaxBlockhash
MaxSignature == 2   \* signatures the node can return: 1..MaxSignature

RECURSIVE Pow2(_)
Pow2(n) == IF n = 0 THEN 1 ELSE 2 * Pow2(n - 1)

Modulus == Pow2(U64Bits)
U64 == 0 .. (Modulus - 1)

(* Program constants *)

KeyLen == 64        \* private_key.len() != 64

(* Decoded lengths tried for the sender key *)
KeyLens == {0, 32, 63, KeyLen, 65}

None == -1

----------------------------------------------------------------------------
(* Values *)

Ok(v) == [ok |-> TRUE, kind |-> "Ok", val |-> v, current |-> None, required |-> None]
Err(k) == [ok |-> FALSE, kind |-> k, val |-> None, current |-> None, required |-> None]
NoResult == [ok |-> FALSE, kind |-> "none", val |-> None, current |-> None, required |-> None]

(* keys.sender_private_key, described by what bs58::decode and            *)
(* Keypair::from_bytes make of it: whether it decodes, the decoded length, *)
(* and whether the decoded bytes form a key pair (only 64 bytes can).      *)
SenderKeys ==
    { k \in [decodes : BOOLEAN, len : KeyLens, validPair : BOOLEAN] :
        /\ (~k.decodes => (k.len = 0 /\ ~k.validPair))
        /\ (k.validPair => k.len = KeyLen) }

Settings ==
    [ loads : BOOLEAN,                 \* config file found and deserialized
      sender_private_key : SenderKeys,
      receiver_ok : BOOLEAN,           \* receiver_public_key parses as Pubkey
      amount : U64,
      min_balance : U64 ]

(* Replies of the RPC node *)
BalanceReplies == {Ok(b) : b \in U64} \cup {Err("NetworkError")}
BlockhashReplies == {Ok(h) : h \in 1..MaxBlockhash} \cup {Err("NetworkError")}
SubmitReplies == {Ok(s) : s \in 1..MaxSignature}
                   \cup {Err("NetworkError"), Err("RejectedByChain"), Err("Timeout")}

----------------------------------------------------------------------------
(* Pure functions *)

Overflows(a, b) == a + b >= Modulus
WrapAdd(a, b) == (a + b) % Modulus

(* create_sender_keypair: decode, check the length, construct *)
create_sender_keypair_noLengthCheck(key) ==
    IF ~key.decodes THEN Err("InvalidEncoding")
    ELSE IF ~key.validPair THEN Err("KeyConstructionError")
    ELSE Ok(1)

create_sender_keypair(key) ==
    IF ~key.decodes THEN Err("InvalidEncoding")
    ELSE IF key.len # KeyLen THEN Err("InvalidKeyLength")
    ELSE IF ~key.validPair THEN Err("KeyConstructionError")
    ELSE Ok(1)

(* Pubkey::from_str(receiver_public_key).map_err(...) *)
parse_receiver_lenient(cfg) == Ok(2)

parse_receiver(cfg) ==
    IF cfg.receiver_ok THEN Ok(2) ELSE Err("InvalidAddress")

(* the `?` operator on an RPC error: anyhow::Error::from keeps the error *)
propagate_lossy(reply) == Err("NetworkError")

propagate(reply) == Err(reply.kind)

(* balance >= amount + min_balance with the sum wrapped (no overflow checks) *)
compare_balance(b, amount, min_balance) == b >= WrapAdd(amount, min_balance)

(* the branch on the value of check_sufficient_balance (line 90) *)
after_check_ignored(ok) == "send_build"

after_check(ok) == IF ok THEN "send_build" ELSE "send_insufficient"

(* transaction.sign(&[&sender_keypair], recent_blockhash) *)
sign_stale(message, blockhash) ==
    [instruction |-> message, blockhash |-> 0, signed |-> TRUE]

sign(message, blockhash) ==
    [instruction |-> message, blockhash |-> blockhash, signed |-> TRUE]

(* the `?` after the submission call (line 123) *)
after_submit_retry(reply) == IF reply.ok THEN "send_post_balance" ELSE "send_blockhash"

after_submit(reply) == IF reply.ok THEN "send_post_balance" ELSE "main_match"

NoTransaction == [instruction |-> None, blockhash |-> None, signed |-> FALSE]

(* one call to the RpcClient: the method, the transaction passed, the reply *)
Call(op, tx, reply) == [op |-> op, tx |-> tx, reply |-> reply]

Line(stream, tag, val) == [stream |-> stream, tag |-> tag, val |-> val]

----------------------------------------------------------------------------
Init ==
    /\ pc = "main_new"
    /\ config \in Settings
    /\ overflow_checks \in BOOLEAN
    /\ calls = <<>>
    /\ current_balance = None
    /\ balance = None
    /\ sufficient = FALSE
    /\ checked = FALSE
    /\ instruction = None
    /\ recent_blockhash = None
    /\ transaction = NoTransaction
    /\ signature = None
    /\ new_balance = None
    /\ result = NoResult
    /\ out = <<>>
    /\ panicked = FALSE
    /\ exitCode = None

sendLocals == <<current_balance, balance, sufficient, checked, instruction,
                recent_blockhash, transaction, signature, new_balance>>

(* main returns Err(e): the runtime prints it and the process exits 1 *)
MainFails(kind) ==
    /\ pc' = "done"
    /\ out' = Append(out, Line("stderr", kind, None))
    /\ exitCode' = 1

(* main, line 156: SolanaTransactionManager::new("config/config.toml")? *)
Main_new ==
    /\ pc = "main_new"
    /\ IF config.loads
         THEN /\ pc' = "main_keypair"
              /\ UNCHANGED <<out, exitCode>>
         ELSE MainFails("ConfigError")
    /\ UNCHANGED <<config, overflow_checks, calls, sendLocals, result, panicked>>

(* main, lines 158-160: create_sender_keypair()? and the two println! *)
Main_keypair ==
    /\ pc = "main_keypair"
    /\ LET kp == create_sender_keypair(config.sender_private_key) IN
         IF kp.ok
           THEN /\ pc' = "main_balance"
                /\ out' = out \o <<Line("stdout", "sender", kp.val),
                                   Line("stdout", "receiver", None)>>
                /\ UNCHANGED exitCode
           ELSE MainFails(kp.kind)
    /\ UNCHANGED <<config, overflow_checks, calls, sendLocals, result, panicked>>

(* main, lines 162-166: get_balance(...)? and println! *)
Main_get_balance ==
    /\ pc = "main_balance"
    /\ \E reply \in BalanceReplies :
         /\ calls' = Append(calls, Call("getBalance", NoTransaction, reply))
         /\ IF reply.ok
              THEN /\ pc' = "send_keypair"
                   /\ out' = Append(out, Line("stdout", "balance", reply.val))
                   /\ UNCHANGED exitCode
              ELSE MainFails(propagate(reply).kind)
    /\ UNCHANGED <<config, overflow_checks, sendLocals, result, panicked>>

(* send_transaction, line 79 *)
Send_keypair ==
    /\ pc = "send_keypair"
    /\ LET kp == create_sender_keypair(config.sender_private_key) IN
         IF kp.ok
           THEN /\ pc' = "send_parse"
                /\ UNCHANGED result
           ELSE /\ pc' = "main_match"
                /\ result' = kp
    /\ UNCHANGED <<config, overflow_checks, calls, sendLocals, out, panicked, exitCode>>

(* send_transaction, lines 81-82 *)
Send_parse_receiver ==
    /\ pc = "send_parse"
    /\ LET pk == parse_receiver(config) IN
         IF pk.ok
           THEN /\ pc' = "send_balance"
                /\ UNCHANGED result
           ELSE /\ pc' = "main_match"
                /\ result' = pk
    /\ UNCHANGED <<config, overflow_checks, calls, sendLocals, out, panicked, exitCode>>

(* send_transaction, lines 84-88 *)
Send_get_balance ==
    /\ pc = "send_balance"
    /\ \E reply \in BalanceReplies :
         /\ calls' = Append(calls, Call("getBalance", NoTransaction, reply))
         /\ IF reply.ok
              THEN /\ pc' = "send_check"
                   /\ current_balance' = reply.val
                   /\ out' = Append(out, Line("info", "balance", reply.val))
                   /\ UNCHANGED result
              ELSE /\ pc' = "main_match"
                   /\ result' = propagate(reply)
                   /\ UNCHANGED <<current_balance, out>>
    /\ UNCHANGED <<config, overflow_checks, balance, sufficient, checked,
                   instruction, recent_blockhash, transaction, signature,
                   new_balance, panicked, exitCode>>

(* send_transaction, line 90, calling check_sufficient_balance, lines 73-76 *)
Send_check_balance ==
    /\ pc = "send_check"
    /\ \E reply \in BalanceReplies :
         /\ calls' = Append(calls, Call("getBalance", NoTransaction, reply))
         /\ IF ~reply.ok
              THEN /\ pc' = "main_match"
                   /\ result' = propagate(reply)
                   /\ UNCHANGED <<balance, sufficient, checked, panicked, exitCode, out>>
              ELSE /\ balance' = reply.val
                   /\ IF Overflows(config.amount, config.min_balance) /\ overflow_checks
                        THEN /\ panicked' = TRUE
                             /\ exitCode' = 101
                             /\ pc' = "done"
                             /\ out' = Append(out, Line("stderr", "panic", None))
                             /\ UNCHANGED <<sufficient, checked>>
                        ELSE /\ checked' = TRUE
                             /\ sufficient' = compare_balance(reply.val, config.amount,
                                                              config.min_balance)
                             /\ pc' = after_check(sufficient')
                             /\ UNCHANGED <<panicked, exitCode, out>>
                   /\ UNCHANGED result
    /\ UNCHANGED <<config, overflow_checks, current_balance, instruction,
                   recent_blockhash, transaction, signature, new_balance>>

(* send_transaction, lines 91-96: return Err(anyhow!("Insufficient balance...")) *)
(* The message carries current_balance and amount + min_balance.              *)
Send_insufficient ==
    /\ pc = "send_insufficient"
    /\ result' = [Err("InsufficientBalance") EXCEPT
                    !.current = current_balance,
                    !.required = WrapAdd(config.amount, config.min_balance)]
    /\ pc' = "main_match"
    /\ UNCHANGED <<config, overflow_checks, calls, sendLocals, out, panicked, exitCode>>

(* send_transaction, lines 99-103 *)
Send_build_instruction ==
    /\ pc = "send_build"
    /\ instruction' = config.amount
    /\ pc' = "send_blockhash"
    /\ UNCHANGED <<config, overflow_checks, calls, current_balance, balance,
                   sufficient, checked, recent_blockhash, transaction, signature,
                   new_balance, result, out, panicked, exitCode>>

(* send_transaction, line 105 *)
Send_get_latest_blockhash ==
    /\ pc = "send_blockhash"
    /\ \E reply \in BlockhashReplies :
         /\ calls' = Append(calls, Call("getLatestBlockhash", NoTransaction, reply))
         /\ IF reply.ok
              THEN /\ pc' = "send_sign"
                   /\ recent_blockhash' = reply.val
                   /\ UNCHANGED result
              ELSE /\ pc' = "main_match"
                   /\ result' = propagate(reply)
                   /\ UNCHANGED recent_blockhash
    /\ UNCHANGED <<config, overflow_checks, current_balance, balance, sufficient,
                   checked, instruction, transaction, signature, new_balance,
                   out, panicked, exitCode>>

(* send_transaction, lines 107-109 *)
Send_sign ==
    /\ pc = "send_sign"
    /\ transaction' = sign(instruction, recent_blockhash)
    /\ pc' = "send_submit"
    /\ UNCHANGED <<config, overflow_checks, calls, current_balance, balance,
                   sufficient, checked, instruction, recent_blockhash, signature,
                   new_balance, result, out, panicked, exitCode>>

(* send_transaction, lines 111-125 *)
Send_submit ==
    /\ pc = "send_submit"
    /\ \E reply \in SubmitReplies :
         /\ calls' = Append(calls, Call("sendAndConfirm", transaction, reply))
         /\ pc' = after_submit(reply)
         /\ IF reply.ok
              THEN /\ signature' = reply.val
                   /\ out' = Append(out, Line("info", "signature", reply.val))
                   /\ UNCHANGED result
              ELSE /\ result' = propagate(reply)
                   /\ UNCHANGED <<signature, out>>
    /\ UNCHANGED <<config, overflow_checks, current_balance, balance, sufficient,
                   checked, instruction, recent_blockhash, transaction,
                   new_balance, panicked, exitCode>>

(* send_transaction, lines 127-133 *)
Send_post_balance ==
    /\ pc = "send_post_balance"
    /\ \E reply \in BalanceReplies :
         /\ calls' = Append(calls, Call("getBalance", NoTransaction, reply))
         /\ pc' = "main_match"
         /\ IF reply.ok
              THEN /\ new_balance' = reply.val
                   /\ out' = Append(out, Line("info", "new_balance", reply.val))
                   /\ result' = Ok(signature)
              ELSE /\ result' = propagate(reply)
                   /\ UNCHANGED <<new_balance, out>>
    /\ UNCHANGED <<config, overflow_checks, current_balance, balance, sufficient,
                   checked, instruction, recent_blockhash, transaction,
                   signature, panicked, exitCode>>

(* main, lines 168-177: match on the result, then Ok(()) *)
Main_match ==
    /\ pc = "main_match"
    /\ out' = Append(out, IF result.ok
                            THEN Line("stdout", "signature", result.val)
                            ELSE Line("error", result.kind, None))
    /\ exitCode' = 0
    /\ pc' = "done"
    /\ UNCHANGED <<config, overflow_checks, calls, sendLocals, result, panicked>>

Next ==
    \/ Main_new
    \/ Main_keypair
    \/ Main_get_balance
    \/ Send_keypair
    \/ Send_parse_receiver
    \/ Send_get_balance
    \/ Send_check_balance
    \/ Send_insufficient
    \/ Send_build_instruction
    \/ Send_get_latest_blockhash
    \/ Send_sign
    \/ Send_submit
    \/ Send_post_balance
    \/ Main_match

Spec == Init /\ [][Next]_vars

----------------------------------------------------------------------------
(* Helpers for the properties *)

Ops == [i \in 1..Len(calls) |-> calls[i].op]

Issued(op) == \E i \in 1..Len(calls) : calls[i].op = op

Count(op) == Cardinality({i \in 1..Len(calls) : calls[i].op = op})

IsPrefix(s, t) == Len(s) <= Len(t) /\ \A i \in 1..Len(s) : s[i] = t[i]

(* the RPC calls of a complete successful run, in program order *)
FullRun == <<"getBalance", "getBalance", "getBalance",
             "getLatestBlockhash", "sendAndConfirm", "getBalance">>

(* send_transaction has returned to main *)
Returned == pc = "main_match" \/ (pc = "done" /\ exitCode = 0)

LastCall == calls[Len(calls)]

SubmitFailed ==
    /\ calls # <<>>
    /\ LastCall.op = "sendAndConfirm"
    /\ ~LastCall.reply.ok

----------------------------------------------------------------------------
(* C1: once check_sufficient_balance has returned false, no blockhash has  *)
(* been fetched and no transaction has been submitted, and none will be.   *)
C1_NoSubmitWhenInsufficient ==
    (checked /\ ~sufficient) =>
        /\ Count("sendAndConfirm") = 0
        /\ Count("getLatestBlockhash") = 0
        /\ pc \in {"send_insufficient", "main_match", "done"}

C1_Witness ==
    /\ pc = "done"
    /\ checked /\ ~sufficient
    /\ result.kind = "InsufficientBalance"

(* C2: check_sufficient_balance never panics and returns true iff          *)
(* balance >= amount + min_balance with the sum taken without wrap-around. *)
C2_CheckIsExact ==
    /\ ~panicked
    /\ checked => (sufficient <=> balance >= config.amount + config.min_balance)

(* C3: once the submission call has returned a signature, send_transaction *)
(* returns Ok with that signature.                                         *)
C3_ConfirmedIsSuccess ==
    (Returned /\ signature # None) => result = Ok(signature)

(* C4, as claimed: when the receiver address is malformed, the failure     *)
(* InvalidAddress is produced with no RPC call issued in the run.          *)
C4_NoCallBeforeInvalidAddress ==
    (~config.receiver_ok /\ result.kind = "InvalidAddress") => calls = <<>>

(* C4, amended: with a malformed receiver address send_transaction returns *)
(* InvalidAddress without issuing any RPC call itself; the only call of    *)
(* the run is the one balance query main makes before calling it, and no   *)
(* blockhash query or submission is ever issued.                           *)
C4_InvalidAddressBeforeOwnCalls ==
    ~config.receiver_ok =>
        /\ IsPrefix(Ops, <<"getBalance">>)
        /\ Returned => (result = Err("InvalidAddress") /\ Ops = <<"getBalance">>)
        /\ pc \in {"main_new", "main_keypair", "main_balance", "send_keypair",
                   "send_parse", "main_match", "done"}

C4_Witness ==
    /\ ~config.receiver_ok
    /\ pc = "done"
    /\ result.kind = "InvalidAddress"

C6_ExitZeroOnlyOnSuccess ==
    (pc = "done" /\ exitCode = 0) =>
        /\ result.ok
        /\ out[Len(out)] = Line("stdout", "signature", result.val)

(* C7: a sender key that decodes to a length other than 64 makes the run   *)
(* fail with InvalidKeyLength, key construction is not attempted first,    *)
(* and no RPC call is made.                                                *)
C7_WrongLengthIsInvalidKeyLength ==
    LET key == config.sender_private_key IN
    (key.decodes /\ key.len # KeyLen) =>
        /\ create_sender_keypair(key) = Err("InvalidKeyLength")
        /\ calls = <<>>
        /\ pc \in {"main_new", "main_keypair", "done"}
        /\ (pc = "done" /\ config.loads) =>
              /\ out = <<Line("stderr", "InvalidKeyLength", None)>>
              /\ exitCode = 1

C7_Witness ==
    /\ config.sender_private_key.decodes
    /\ config.sender_private_key.len = 63
    /\ config.loads
    /\ pc = "done"

(* C8: the RPC calls of a run are issued in program order, each one only   *)
(* after the previous one replied Ok; a transaction is signed only after a *)
(* passed balance check and a fetched blockhash; the transaction submitted *)
(* is signed with the blockhash fetched in this run.                       *)
C8_StepsInOrder ==
    /\ IsPrefix(Ops, FullRun)
    /\ \A i \in 1..Len(calls) : i < Len(calls) => calls[i].reply.ok
    /\ transaction.signed =>
          /\ checked /\ sufficient
          /\ Issued("getLatestBlockhash")
          /\ transaction.blockhash = recent_blockhash
    /\ \A i \in 1..Len(calls) :
          calls[i].op = "sendAndConfirm" =>
              /\ checked /\ sufficient
              /\ calls[i].tx.signed
              /\ calls[i].tx.instruction = config.amount
              /\ \E j \in 1..(i - 1) :
                    /\ calls[j].op = "getLatestBlockhash"
                    /\ calls[j].reply = Ok(calls[i].tx.blockhash)

C8_Witness ==
    /\ Issued("sendAndConfirm")
    /\ pc = "done"
    /\ result.ok

(* C9: a run issues at most one submission and at most one blockhash       *)
(* query; after a failed submission no further RPC call is made and        *)
(* send_transaction returns that error.                                    *)
C9_SingleAttempt ==
    /\ Count("sendAndConfirm") <= 1
    /\ Count("getLatestBlockhash") <= 1
    /\ \A i \in 1..Len(calls) :
          (calls[i].op = "sendAndConfirm" /\ ~calls[i].reply.ok) =>
              /\ i = Len(calls)
              /\ Returned
              /\ result = Err(calls[i].reply.kind)

C9_Witness ==
    /\ pc = "done"
    /\ SubmitFailed
    /\ LastCall.reply.kind = "RejectedByChain"

(* C10: an InsufficientBalance failure reports as current the balance the  *)
(* check compared and as required amount + min_balance, so that            *)
(* current < required.                                                     *)
C10_ReportIsConsistent ==
    result.kind = "InsufficientBalance" =>
        /\ result.current = balance
        /\ result.required = config.amount + config.min_balance
        /\ result.current < result.required

====
